---- MODULE Spec2Model ----
(***************************************************************************)
(* Model of pysigmap's Casagrande.getSigmaP (src/pysigmap/casagrande.py).  *)
(*                                                                         *)
(* Numbers.  A float is a pair <<n, d>> of integers: the rational n/d when *)
(* d > 0, +inf = <<1,0>>, -inf = <<-1,0>>, nan = <<0,0>>.  Arithmetic is   *)
(* exact on finite values and follows IEEE-754 on the special values       *)
(* (x/0 = inf, 0/0 = nan, inf - inf = nan, 0*inf = nan); rounding is not   *)
(* modelled.  A stress (kPa) is kept by its decimal logarithm, [k, lg]:    *)
(* 10**x overflows to inf above MaxExp10 and underflows to 0 below         *)
(* MinExp10, and log10 maps these back to +inf and -inf.                   *)
(*                                                                         *)
(* Library calls.  scipy's CubicSpline and numpy's polyfit are outside the *)
(* repository.  The interpolant cs is modelled by the piecewise-linear     *)
(* interpolant of the same points (it interpolates and extrapolates, as    *)
(* cs does); the curvature samples of line 116 are an input table          *)
(* (lib.curvature), compared only for order by the peak search.            *)
(***************************************************************************)
EXTENDS Integers, Sequences, FiniteSets, TLC

VARIABLES data, lib, obj, call, nCalls

vars == <<data, lib, obj, call, nCalls>>

----------------------------------------------------------------------------
(* Bounds of the model *)

\* number of cleaned points (data.cleaned has NumCleaned rows, indices 0..NumCleaned-1)
NumCleaned == 6
\* samples of the spline grid sigmaCS (100 in the source, line 112)
NumSamples == 5
\* samples of the polynomial grid x4FOP (1000 in the source, line 136)
NumSamplesFOP == 3
\* curvature samples take values in 0..MaxCurv (0..MaxCurvPeaks under PeakSpec)
MaxCurv == 1
MaxCurvPeaks == 2
\* getSigmaP calls made on the one object
MaxCalls == 2

(* Program constants *)

\* find_peaks(curvature, distance=500), line 117
Distance == 500
\* largest and smallest decimal exponent of a float64 (10**x, line 163)
MaxExp10 == 308
MinExp10 == -324

----------------------------------------------------------------------------
(* Floats *)

Abs(i) == IF i < 0 THEN -i ELSE i

Sign(i) == IF i > 0 THEN 1 ELSE IF i < 0 THEN -1 ELSE 0

RECURSIVE GCD(_, _)
GCD(a, b) == IF b = 0 THEN a ELSE GCD(b, a % b)

Norm(n, d) ==
    IF d = 0 THEN <<Sign(n), 0>>
    ELSE LET g == GCD(Abs(n), Abs(d))
             s == IF d < 0 THEN -1 ELSE 1
         IN  <<(s * n) \div g, (s * d) \div g>>

NaN == <<0, 0>>
PosInf == <<1, 0>>
NegInf == <<-1, 0>>
Zero == <<0, 1>>
R(n, d) == Norm(n, d)

IsNaN(a) == a = NaN
IsFinite(a) == a[2] > 0

FNeg(a) == <<-a[1], a[2]>>

FAdd(a, b) ==
    IF IsNaN(a) \/ IsNaN(b) THEN NaN
    ELSE IF a[2] = 0 /\ b[2] = 0 THEN (IF a = b THEN a ELSE NaN)
    ELSE IF a[2] = 0 THEN a
    ELSE IF b[2] = 0 THEN b
    ELSE Norm(a[1] * b[2] + b[1] * a[2], a[2] * b[2])

FSub(a, b) == FAdd(a, FNeg(b))

FMul(a, b) == Norm(a[1] * b[1], a[2] * b[2])

Recip(b) ==
    IF b[1] = 0 THEN (IF b[2] = 0 THEN NaN ELSE PosInf)
    ELSE <<Sign(b[1]) * b[2], Abs(b[1])>>

FDiv(a, b) == IF IsNaN(a) \/ IsNaN(b) THEN NaN ELSE FMul(a, Recip(b))

FLt(a, b) ==
    /\ ~IsNaN(a)
    /\ ~IsNaN(b)
    /\ IF a[2] = 0 /\ b[2] = 0 THEN a[1] < b[1] ELSE a[1] * b[2] < b[1] * a[2]

FLe(a, b) == ~IsNaN(a) /\ ~IsNaN(b) /\ ~FLt(b, a)

\* IEEE equality: nan is equal to nothing
FEq(a, b) == ~IsNaN(a) /\ ~IsNaN(b) /\ a = b

ISqrt(k) == CHOOSE h \in 0..k : h * h <= k /\ (h + 1) * (h + 1) > k

----------------------------------------------------------------------------
(* Stresses: 10**x and log10 *)

Stress(lg) == [k |-> "pos", lg |-> lg]
ZeroStress == [k |-> "zero", lg |-> Zero]
InfStress == [k |-> "inf", lg |-> Zero]
NaNStress == [k |-> "nan", lg |-> Zero]

\* 10**x
Pow10(x) ==
    IF IsNaN(x) THEN NaNStress
    ELSE IF x = PosInf \/ FLt(<<MaxExp10, 1>>, x) THEN InfStress
    ELSE IF x = NegInf \/ FLt(x, <<MinExp10, 1>>) THEN ZeroStress
    ELSE Stress(x)

\* np.log10(s)
Log10(s) ==
    CASE s.k = "pos" -> s.lg
      [] s.k = "zero" -> NegInf
      [] s.k = "inf" -> PosInf
      [] OTHER -> NaN

\* s / t for a positive finite t
StressDiv(s, t) == IF s.k = "pos" THEN Pow10(FSub(s.lg, t.lg)) ELSE s

----------------------------------------------------------------------------
(* Optional values: None is the empty tuple, a present value v is <<v>> *)

None == <<>>
Some(v) == <<v>>

\* an attribute of the object that no call has written yet
UnsetStress == [k |-> "unset", lg |-> Zero]
\* a str object, such as '200', in the place of a pressure
StrStress == [k |-> "str", lg |-> Zero]
Unset == <<>>

----------------------------------------------------------------------------
(* The cleaned data and the curve through it *)

Rows == 0..(NumCleaned - 1)

\* np.linspace(a, b, n)[i], i in 0..n-1
LinSpace(a, b, n) ==
    [i \in 0..(n - 1) |-> FAdd(a, FMul(R(i, n - 1), FSub(b, a)))]

\* sigmaLog = np.log10(self.data.cleaned['stress'][1:]), indexed by the row
sigmaLog(d) == [i \in 1..(NumCleaned - 1) |-> Log10(d.stress[i])]

\* sigmaCS = np.linspace(sigmaLog.iloc[0], sigmaLog.iloc[-1], 100)
sigmaCS(d) == LinSpace(sigmaLog(d)[1], sigmaLog(d)[NumCleaned - 1], NumSamples)

\* the piece of the interpolant that evaluates x: the one whose left knot is
\* the last knot <= x, the first piece below the knots and the last piece at
\* and above the last knot (extrapolation)
Piece(d, x) ==
    LET inside == {j \in 1..(NumCleaned - 2) : FLe(sigmaLog(d)[j], x)}
    IN  IF inside = {} THEN 1
        ELSE CHOOSE j \in inside : \A k \in inside : k <= j

\* cs(x, nu=1): the slope of the interpolant at x
csD1(d, x) ==
    IF ~IsFinite(x) THEN NaN
    ELSE LET j == Piece(d, x)
         IN  FDiv(FSub(d.e[j + 1], d.e[j]),
                  FSub(sigmaLog(d)[j + 1], sigmaLog(d)[j]))

\* cs(x): the interpolant through (sigmaLog, e[1:]) at x
cs(d, x) ==
    IF ~IsFinite(x) THEN NaN
    ELSE LET j == Piece(d, x)
         IN  FAdd(d.e[j], FMul(csD1(d, x), FSub(x, sigmaLog(d)[j])))

----------------------------------------------------------------------------
(* scipy.signal.find_peaks(x, distance) and np.argmax *)

\* the first sample after i that differs from x[i], or the last sample
RECURSIVE PlateauEnd(_, _, _)
PlateauEnd(x, i, iAhead) ==
    IF iAhead < NumSamples - 1 /\ x[iAhead] = x[i]
    THEN PlateauEnd(x, i, iAhead + 1)
    ELSE iAhead

\* the midpoints of the local maxima of x from sample i on (the first and
\* the last sample are never maxima; a flat top counts once, at its middle)
RECURSIVE LocalMaximaFrom(_, _)
LocalMaximaFrom(x, i) ==
    IF i >= NumSamples - 1 THEN <<>>
    ELSE IF x[i - 1] < x[i]
         THEN LET iAhead == PlateauEnd(x, i, i + 1)
              IN  IF x[iAhead] < x[i]
                  THEN <<(i + iAhead - 1) \div 2>> \o LocalMaximaFrom(x, iAhead + 1)
                  ELSE LocalMaximaFrom(x, i + 1)
         ELSE LocalMaximaFrom(x, i + 1)

LocalMaxima(x) == LocalMaximaFrom(x, 1)

\* np.argsort order of two peaks j, k (positions in the peak list) by height:
\* j is sorted before k.  Equal heights keep their order when the sort is
\* stable and may be swapped when it is not.
SortedBefore(x, peaks, stable, j, k) ==
    \/ x[peaks[j]] < x[peaks[k]]
    \/ x[peaks[j]] = x[peaks[k]] /\ (IF stable THEN j < k ELSE j > k)

\* _select_by_peak_distance: peaks are visited from the highest priority down;
\* a visited peak that is still kept removes every other peak closer than
\* distance.  todo: the peaks not visited yet; keep: the peaks still kept.
RECURSIVE SelectByPeakDistance(_, _, _, _, _, _)
SelectByPeakDistance(x, peaks, distance, stable, todo, keep) ==
    IF todo = {} THEN keep
    ELSE LET j == CHOOSE j \in todo :
                      \A k \in todo \ {j} : SortedBefore(x, peaks, stable, k, j)
             near == {k \in keep \ {j} : Abs(peaks[k] - peaks[j]) < distance}
         IN  SelectByPeakDistance(x, peaks, distance, stable, todo \ {j},
                                  IF j \in keep THEN keep \ near ELSE keep)

\* the kept peak positions, in increasing order
RECURSIVE KeptPeaks(_, _, _)
KeptPeaks(peaks, keep, j) ==
    IF j > Len(peaks) THEN <<>>
    ELSE (IF j \in keep THEN <<peaks[j]>> ELSE <<>>) \o KeptPeaks(peaks, keep, j + 1)

\* a peak search that does not apply the minimum distance: every local maximum
FindPeaksNoDistance(x, distance, stable) == LocalMaxima(x)

\* find_peaks(x, distance=distance)[0]
FindPeaks(x, distance, stable) ==
    LET peaks == LocalMaxima(x)
        all == 1..Len(peaks)
    IN  KeptPeaks(peaks, SelectByPeakDistance(x, peaks, distance, stable, all, all), 1)

\* np.argmax(x): the first index of the largest value
ArgMax(x) ==
    CHOOSE i \in DOMAIN x :
        /\ \A k \in DOMAIN x : x[k] <= x[i]
        /\ \A k \in DOMAIN x : x[k] = x[i] => i <= k

----------------------------------------------------------------------------
(* The Casagrande object and getSigmaP *)

Attrs == {"sigmaMC", "eMC", "sigmaP", "eSigmaP", "ocr"}

\* the object after __init__: no result attribute exists yet.  by[a] is the
\* number of the call that wrote attribute a last (0: never written).
NewObj ==
    [sigmaMC |-> UnsetStress, eMC |-> Unset, sigmaP |-> UnsetStress,
     eSigmaP |-> Unset, ocr |-> UnsetStress, by |-> [a \in Attrs |-> 0]]

\* self.a = v, in call number n
SetAttr(self, a, v, n) == [self EXCEPT ![a] = v, !.by[a] = n]

\* transform(x): log10(x), taken twice when loglog.  The second logarithm is
\* kept symbolically, [ll |-> TRUE, v |-> log10(x)] standing for log10(v);
\* log10 of 0 is -inf and of a negative number nan.
transform(x, loglog) ==
    LET lg == Log10(x)
    IN  IF ~loglog THEN [ll |-> FALSE, v |-> lg]
        ELSE IF IsNaN(lg) \/ FLt(lg, Zero) THEN [ll |-> FALSE, v |-> NaN]
        ELSE IF lg = Zero THEN [ll |-> FALSE, v |-> NegInf]
        ELSE [ll |-> TRUE, v |-> lg]

\* transform(t, reverse=True): 10**t, or 10**10**t when loglog
transformReverse(t, loglog) ==
    IF ~loglog THEN Pow10(t.v)
    ELSE IF t.ll THEN Pow10(t.v)
    ELSE Pow10(Log10(Pow10(t.v)))

\* self.data.findStressIdx(stress2find, cleanedData=True): the first cleaned
\* row whose stress is at least stress2find, None when there is none
findStressIdx(d, stress2find) ==
    LET rows == {i \in Rows : FLe(Log10(stress2find), Log10(d.stress[i]))}
    IN  IF rows = {} THEN None
        ELSE Some(CHOOSE i \in rows : \A k \in rows : i <= k)

\* the rows of cleaned[idxInitFOP: idxEndFOP]
SliceRows(idxInitFOP, idxEndFOP) ==
    LET start == IF idxInitFOP = None THEN 0 ELSE idxInitFOP[1]
        stop == IF idxEndFOP = None THEN NumCleaned ELSE idxEndFOP[1]
    IN  start..(stop - 1)

\* the curvature of the fitted polynomial at log10 stress x (lines 133-143):
\* read from the curvature table at the sample of sigmaCS at or before x
curvatureFOP(d, l, x) ==
    LET a == sigmaLog(d)[1]
        b == sigmaLog(d)[NumCleaned - 1]
        t == FDiv(FMul(FSub(x, a), R(NumSamples - 1, 1)), FSub(b, a))
        i == t[1] \div t[2]
    IN  l.curvature[IF i < 0 THEN 0 ELSE IF i > NumSamples - 1 THEN NumSamples - 1 ELSE i]

\* polyval of the fitted polynomial at log10 stress x (lines 133-138): the
\* curve's value there up to the residual of the fit
y4FOPAt(d, l, x) == FAdd(cs(d, x), l.residual)

\* a spline search that falls back to np.argmax (line 118) when no peak is found
SplineMCPArgMax(self, d, l, n) ==
    LET peaks == FindPeaks(l.curvature, Distance, l.stable)
        maxCurvIdx == IF peaks = <<>> THEN ArgMax(l.curvature) ELSE peaks[1]
        s1 == SetAttr(self, "sigmaMC", Pow10(sigmaCS(d)[maxCurvIdx]), n)
    IN  [err |-> "", self |-> SetAttr(s1, "eMC", cs(d, sigmaCS(d)[maxCurvIdx]), n),
         maxCurvIdx |-> maxCurvIdx]

\* lines 114-120: the MCP from the curvature of the spline.  An empty peak
\* list makes [0][0] raise IndexError before anything is written.
SplineMCP(self, d, l, n) ==
    LET curvature == l.curvature
        peaks == FindPeaks(curvature, Distance, l.stable)
    IN  IF peaks = <<>>
        THEN [err |-> "IndexError", self |-> self, maxCurvIdx |-> -1]
        ELSE LET maxCurvIdx == peaks[1]
                 s1 == SetAttr(self, "sigmaMC", Pow10(sigmaCS(d)[maxCurvIdx]), n)
                 s2 == SetAttr(s1, "eMC", cs(d, sigmaCS(d)[maxCurvIdx]), n)
             IN  [err |-> "", self |-> s2, maxCurvIdx |-> maxCurvIdx]

\* lines 136-146: the MCP at the largest curvature of the fitted polynomial
\* over the samples x4FOP.  grid holds log10 of the samples: the first and the
\* last are the ends of the selection, the ones between are kept evenly spaced
\* in log10 (in the source they are evenly spaced in stress).
FOPCurvatureMCP(self, d, l, loglog, n, grid) ==
    LET x4FOP == [i \in 0..(NumSamplesFOP - 1) |-> Pow10(grid[i])]
        x4FOPlog == [i \in 0..(NumSamplesFOP - 1) |-> transform(x4FOP[i], loglog)]
        y4FOP == [i \in 0..(NumSamplesFOP - 1) |-> y4FOPAt(d, l, grid[i])]
        curvature == [i \in 0..(NumSamplesFOP - 1) |-> curvatureFOP(d, l, grid[i])]
        maxCurvIdx == ArgMax(curvature)
        s1 == SetAttr(self, "sigmaMC",
                      transformReverse(x4FOPlog[maxCurvIdx], loglog), n)
    IN  [err |-> "", self |-> SetAttr(s1, "eMC", y4FOP[maxCurvIdx], n),
         maxCurvIdx |-> maxCurvIdx]

\* lines 123-146: the MCP from the curvature of a fourth-order polynomial
\* fitted to the rows between the two pressures.  polyfit raises TypeError on
\* an empty selection and fits any other one.
FOPMCP(self, d, l, range2fitFOP, loglog, n) ==
    LET idxInitFOP == findStressIdx(d, range2fitFOP[1])
        idxEndFOP == findStressIdx(d, range2fitFOP[2])
        rows == SliceRows(idxInitFOP, idxEndFOP)
    IN  IF rows = {}
        THEN [err |-> "TypeError", self |-> self, maxCurvIdx |-> -1]
        ELSE LET first == CHOOSE i \in rows : \A k \in rows : i <= k
                 last == CHOOSE i \in rows : \A k \in rows : k <= i
             IN  FOPCurvatureMCP(self, d, l, loglog, n,
                                 LinSpace(Log10(d.stress[first]),
                                          Log10(d.stress[last]), NumSamplesFOP))

\* a search that keeps the MCP an earlier call left on the object
SearchMCPCached(self, d, l, range2fitFOP, loglog, n) ==
    IF self.by["sigmaMC"] # 0
    THEN [err |-> "", self |-> self, maxCurvIdx |-> -1]
    ELSE IF range2fitFOP = None
         THEN SplineMCP(self, d, l, n)
         ELSE FOPMCP(self, d, l, range2fitFOP[1], loglog, n)

\* lines 113-146: the curvature search chosen by range2fitFOP
SearchMCP(self, d, l, range2fitFOP, loglog, n) ==
    IF range2fitFOP = None
    THEN SplineMCP(self, d, l, n)
    ELSE FOPMCP(self, d, l, range2fitFOP[1], loglog, n)

\* an override that replaces the pressure of the MCP and keeps its void ratio
OverrideMCPStressOnly(self, d, mcp, n) ==
    [err |-> "",
     self |-> IF mcp = None THEN self ELSE SetAttr(self, "sigmaMC", mcp[1], n)]

\* lines 148-150: a given mcp replaces the MCP found; np.log10 of a str
\* raises after self.sigmaMC is assigned
OverrideMCP(self, d, mcp, n) ==
    IF mcp = None THEN [err |-> "", self |-> self]
    ELSE LET s1 == SetAttr(self, "sigmaMC", mcp[1], n)
         IN  IF mcp[1] = StrStress
             THEN [err |-> "TypeError", self |-> s1]
             ELSE [err |-> "", self |-> SetAttr(s1, "eMC", cs(d, Log10(s1.sigmaMC)), n)]

\* np.tan(0.5*np.arctan(m)) = m / (1 + sqrt(1 + m*m)); exact when
\* 1 + m*m is the square of a rational (the slopes of the data are such)
HalfAngleTan(m) ==
    IF IsNaN(m) THEN NaN
    ELSE IF m[2] = 0 THEN <<m[1], 1>>
    ELSE R(m[1], m[2] + ISqrt(m[1] * m[1] + m[2] * m[2]))

\* line 153, 158: the slope of the bisector at the MCP the object holds
SlopeBisect(self, d) == HalfAngleTan(csD1(d, Log10(self.sigmaMC)))

\* lines 154, 163-166: the intersection of the bisector with the virgin
\* compression line, written to the object
Intersect(self, d, n) ==
    LET slopeBisect == SlopeBisect(self, d)
        y1 == self.eMC
        x1 == Log10(self.sigmaMC)
        sigmaP == Pow10(FDiv(FSub(FSub(y1, FMul(slopeBisect, x1)), d.idxCcInt),
                             FSub(FNeg(d.idxCc), slopeBisect)))
        s1 == SetAttr(self, "sigmaP", sigmaP, n)
        s2 == SetAttr(s1, "eSigmaP",
                      FAdd(FMul(slopeBisect, FSub(Log10(s1.sigmaP), x1)), y1), n)
    IN  SetAttr(s2, "ocr", StressDiv(s2.sigmaP, d.sigmaV), n)

\* lines 152-166 on the object self that holds the MCP
BisectAndIntersect(self, d, n, maxCurvIdx) ==
    [err |-> "", self |-> Intersect(self, d, n), maxCurvIdx |-> maxCurvIdx,
     slopeBisect |-> SlopeBisect(self, d)]

\* lines 152-166 after the override ended as over: an error raised by the
\* override ends the call, otherwise the geometry follows
AfterOverride(over, d, n, maxCurvIdx) ==
    IF over.err # ""
    THEN [err |-> over.err, self |-> over.self,
          maxCurvIdx |-> maxCurvIdx, slopeBisect |-> Unset]
    ELSE BisectAndIntersect(over.self, d, n, maxCurvIdx)

\* lines 148-166 after the curvature search ended as found: an error raised
\* by the search ends the call, otherwise the override and the geometry follow
AfterSearch(found, d, mcp, n) ==
    IF found.err # ""
    THEN [err |-> found.err, self |-> found.self,
          maxCurvIdx |-> found.maxCurvIdx, slopeBisect |-> Unset]
    ELSE AfterOverride(OverrideMCP(found.self, d, mcp, n), d, n,
                       found.maxCurvIdx)

\* getSigmaP(mcp, range2fitFOP, loglog) as call number n on object self: the
\* error raised ("" when it returns), the object it leaves, and the locals
\* maxCurvIdx and slopeBisect
GetSigmaPResult(self, d, l, mcp, range2fitFOP, loglog, n) ==
    AfterSearch(SearchMCP(self, d, l, range2fitFOP, loglog, n), d, mcp, n)

----------------------------------------------------------------------------
(* Inputs *)

\* slopes of the curve per decade of stress: 1 + m*m is a rational square
RecompressionSlopes == {Zero, R(-5, 12)}
VirginSlope == R(-3, 4)

\* cleaned['e'] of a curve that starts at void ratio 3, falls with slope sR
\* over the first three decades and with the virgin slope after them
RECURSIVE VoidRatio(_, _)
VoidRatio(sR, i) ==
    IF i = 0 THEN R(3, 1)
    ELSE FAdd(VoidRatio(sR, i - 1), IF i <= 3 THEN sR ELSE VirginSlope)

\* a Data object: stresses 10, 100, ... kPa, sigmaV = 100 kPa, the virgin
\* compression line e = 5 - cc*log10(stress)
DataOf(sR, cc) ==
    [stress |-> [i \in Rows |-> Stress(R(i + 1, 1))],
     e |-> [i \in Rows |-> VoidRatio(sR, i)],
     idxCc |-> cc, idxCcInt |-> R(5, 1), sigmaV |-> Stress(R(2, 1))]

\* compression indices: 1/3 is parallel to the bisector of the virgin slope,
\* 0.334 nearly parallel to it
DataSet == {DataOf(sR, cc) : sR \in RecompressionSlopes, cc \in {R(1, 3), R(167, 500)}}

\* what the libraries return for the data: the curvature samples of line 116
\* (values 0..maxCurv), whether argsort keeps the order of equal heights, the
\* residual of the polynomial fit
LibSet(maxCurv) ==
    [curvature : [0..(NumSamples - 1) -> 0..maxCurv], stable : BOOLEAN,
     residual : {R(1, 10)}]

\* mcp: None, a pressure inside the data, a pressure beyond the last row, a
\* str given where a number is expected
McpSet ==
    {None, Some(Stress(R(7, 2))), Some(Stress(R(NumCleaned + 2, 1))), Some(StrStress)}

\* range2fitFOP: None, or two pressures
RangeSet ==
    {None,
     Some(<<Stress(R(1, 1)), Stress(R(NumCleaned + 1, 1))>>),
     Some(<<Stress(R(2, 1)), Stress(R(NumCleaned + 1, 1))>>),
     Some(<<Stress(R(1, 1)), Stress(R(4, 1))>>),
     Some(<<Stress(R(2, 1)), Stress(R(1, 1))>>)}

----------------------------------------------------------------------------
(* The state machine *)

\* call: the arguments of the last call, the object it started from (pre),
\* the error it raised ("": it returned) and its locals
NoCall ==
    [mcp |-> None, range2fitFOP |-> None, loglog |-> TRUE, pre |-> NewObj,
     err |-> "", maxCurvIdx |-> -1, slopeBisect |-> Unset]

Init ==
    /\ data \in DataSet
    /\ lib \in LibSet(MaxCurv)
    /\ obj = NewObj
    /\ call = NoCall
    /\ nCalls = 0

GetSigmaP(mcp, range2fitFOP, loglog) ==
    /\ nCalls < MaxCalls
    /\ \E r \in {GetSigmaPResult(obj, data, lib, mcp, range2fitFOP, loglog, nCalls + 1)} :
           /\ obj' = r.self
           /\ call' = [mcp |-> mcp, range2fitFOP |-> range2fitFOP, loglog |-> loglog,
                       pre |-> obj, err |-> r.err, maxCurvIdx |-> r.maxCurvIdx,
                       slopeBisect |-> r.slopeBisect]
    /\ nCalls' = nCalls + 1
    /\ UNCHANGED <<data, lib>>

Next ==
    \E mcp \in McpSet, range2fitFOP \in RangeSet, loglog \in BOOLEAN :
        GetSigmaP(mcp, range2fitFOP, loglog)

Spec == Init /\ [][Next]_vars

\* the peak search alone: every curvature table over 0..MaxCurvPeaks, one data
\* set, calls in spline mode
PeakInit ==
    /\ data = DataOf(Zero, R(1, 3))
    /\ lib \in LibSet(MaxCurvPeaks)
    /\ obj = NewObj
    /\ call = NoCall
    /\ nCalls = 0

PeakNext == \E loglog \in BOOLEAN : GetSigmaP(None, None, loglog)

PeakSpec == PeakInit /\ [][PeakNext]_vars

----------------------------------------------------------------------------
(* Properties *)

Called == nCalls > 0
Returned == Called /\ call.err = ""
Failed == Called /\ call.err # ""
SplineMode == call.mcp = None /\ call.range2fitFOP = None
FOPMode == call.mcp = None /\ call.range2fitFOP # None
ManualMode == call.mcp # None

\* the five attributes a call publishes
Published(o) == <<o.sigmaMC, o.eMC, o.sigmaP, o.eSigmaP, o.ocr>>

\* sample i is a local maximum of x: the middle of a run of equal samples
\* with a smaller sample on either side
IsLocalMaximum(x, i) ==
    \E a \in 1..i, b \in i..(NumSamples - 2) :
        /\ \A k \in a..b : x[k] = x[i]
        /\ x[a - 1] < x[i]
        /\ x[b + 1] < x[i]
        /\ i = (a + b) \div 2

LocalMaximumSet(x) == {i \in 0..(NumSamples - 1) : IsLocalMaximum(x, i)}

\* the rows range2fitFOP selects
SelectedRows(range2fitFOP) ==
    SliceRows(findStressIdx(data, range2fitFOP[1]), findStressIdx(data, range2fitFOP[2]))

\* |x| < 1e-9
BelowTolerance(x) == IsFinite(x) /\ Abs(x[1]) <= (x[2] - 1) \div 1000000000

\* the denominator of the intersection formula in the last call
Denominator == FSub(FNeg(data.idxCc), call.slopeBisect)

\* what a call with these arguments does on object self: its error and the
\* attributes it leaves
Outcome(self, mcp, range2fitFOP, loglog) ==
    LET r == GetSigmaPResult(self, data, lib, mcp, range2fitFOP, loglog, nCalls)
    IN  <<r.err, Published(r.self)>>

C2_OtherParametersIgnored ==
    (Called /\ ManualMode) =>
        \A r \in RangeSet, ll \in BOOLEAN :
            Outcome(call.pre, call.mcp, r, ll) = <<call.err, Published(obj)>>

\* C3 (as claimed): a call never returns when the denominator of the
\* intersection formula, -idxCc - slopeBisect, has magnitude below 1e-9.
C3_DegenerateGeometryFails ==
    ~(Returned /\ BelowTolerance(Denominator))

C5_FewPointsFail ==
    (Called /\ FOPMode /\ Cardinality(SelectedRows(call.range2fitFOP[1])) < 5) =>
        Failed

\* C6 (as claimed): after a call that returns with -idxCc # slopeBisect, the
\* published point lies on the bisector through the MCP and on the virgin
\* compression line, at log10(sigmaP) = (eMC - slopeBisect*log10(sigmaMC) -
\* idxCcInt) / (-idxCc - slopeBisect).
C6_PublishedPointIsIntersection ==
    (Returned /\ ~FEq(FNeg(data.idxCc), call.slopeBisect)) =>
        LET b == call.slopeBisect
            x1 == Log10(obj.sigmaMC)
            y1 == obj.eMC
            xp == Log10(obj.sigmaP)
        IN  /\ FEq(obj.eSigmaP, FAdd(FMul(b, FSub(xp, x1)), y1))
            /\ FEq(obj.eSigmaP, FSub(data.idxCcInt, FMul(data.idxCc, xp)))
            /\ FEq(xp, FDiv(FSub(FSub(y1, FMul(b, x1)), data.idxCcInt), Denominator))

\* C7 (as claimed): after a call with mcp given, eSigmaP is the spline at
\* log10(mcp).
C7_ESigmaPIsSplineAtMcp ==
    (Returned /\ ManualMode) => FEq(obj.eSigmaP, cs(data, Log10(call.mcp[1])))

\* C7 (amended): after a call with mcp given, whatever range2fitFOP and loglog
\* are, the MCP is (mcp, spline at log10(mcp)): sigmaMC = mcp and eMC is the
\* spline evaluated at log10(mcp).
C7_EMCIsSplineAtMcp ==
    (Returned /\ ManualMode) =>
        /\ obj.sigmaMC = call.mcp[1]
        /\ FEq(obj.eMC, cs(data, Log10(call.mcp[1])))

\* C7 witness: a call with mcp and a range returned, and the void ratio at
\* the preconsolidation pressure differs from the one at the MCP.
C7_Witness ==
    /\ Returned
    /\ ManualMode
    /\ call.range2fitFOP # None
    /\ IsFinite(obj.eSigmaP)
    /\ obj.eSigmaP # obj.eMC

\* C8 (as claimed): after a call that returns, sigmaMC lies in the domain of
\* the spline, cleaned stress[1] <= sigmaMC <= cleaned stress[last].
C8_MCPInSplineDomain ==
    Returned =>
        /\ FLe(sigmaLog(data)[1], Log10(obj.sigmaMC))
        /\ FLe(Log10(obj.sigmaMC), sigmaLog(data)[NumCleaned - 1])

\* C9: the attributes published by a call that returns are the ones the same
\* call publishes as the first call on a fresh object.
C9_SameAsOnFreshObject ==
    Returned =>
        Published(obj) =
            Published(GetSigmaPResult(NewObj, data, lib, call.mcp,
                                      call.range2fitFOP, call.loglog, 1).self)

\* C9 witness: a call returned on an object that held other results of an
\* earlier call.
C9_Witness ==
    /\ nCalls = 2
    /\ Returned
    /\ call.pre.by["sigmaP"] = 1
    /\ Published(call.pre) # Published(obj)

\* C10 (as claimed): the five attributes are all unset, or all written by
\* one call, with ocr = sigmaP / sigmaV and eSigmaP on the bisector through
\* (sigmaMC, eMC); a call that fails leaves the object as it was.
C10_AllOrNothing ==
    /\ \/ \A a \in Attrs : obj.by[a] = 0
       \/ /\ \E k \in 1..nCalls : \A a \in Attrs : obj.by[a] = k
          /\ obj.ocr = StressDiv(obj.sigmaP, data.sigmaV)
          /\ obj.eSigmaP =
                 FAdd(FMul(SlopeBisect(obj, data),
                           FSub(Log10(obj.sigmaP), Log10(obj.sigmaMC))), obj.eMC)
    /\ Failed => obj = call.pre

====
